---- MODULE Spec2Model ----
(***************************************************************************)
(* ultra_compress_lossless (ga2-q2/compress.py): the lossless-compression  *)
(* strategy selector.  The image codec (PIL's save / open / getdata) and   *)
(* the file system are the environment: a save call yields some byte       *)
(* stream of some size that decodes either to the original pixel list or   *)
(* to a different one, the same call always yields the same bytes, and a   *)
(* save or an open may raise.  A save that raises writes nothing.  The     *)
(* other file operations (getsize, remove, the copy to output_path) do not *)
(* fail, and output_path and the input are not one of the temp names.      *)
(***************************************************************************)
EXTENDS Integers, Sequences, FiniteSets, TLC

VARIABLES
    mode,           \* img.mode
    unique_colors,  \* len(set(original_pixels))
    target_bytes,   \* parameter target_bytes
    faults,         \* environment: for each attempt, whether its save or its open raises
    png,            \* environment: the byte stream each distinct save call yields, once known
    fs,             \* the file system: file name -> content
    strategies,     \* list of (file, size, method)
    best_size,
    best_file,
    pc,             \* position in ultra_compress_lossless
    idx,            \* position in the loop of strategy 3 / strategy 4
    ret,            \* the returned pair and the branch that returned it
    run,            \* number of the current call
    prev,           \* what the previous call returned and left at output_path
    dest0,          \* content of output_path when the current call started
    attempted,      \* history: attempts whose save was called in this call
    wrote,          \* history: file name -> attempts that wrote it in this call
    lastWriter,     \* history: file name -> the attempt that wrote it last
    measured,       \* history: attempt -> the attempt whose bytes it measured and verified
    stage           \* position of each attempt when the attempts are interleaved

vars == <<mode, unique_colors, target_bytes, faults, png, fs, strategies, best_size,
          best_file, pc, idx, ret, run, prev, dest0, attempted, wrote, lastWriter,
          measured, stage>>

\* ---------------------------------------------------------------- bounds
MaxSize == 2
MaxFaults == 1

\* ---------------------------------------------------------------- inputs
Modes == {"L", "RGB", "RGBA", "P"}
UniqueCounts == {2, 4, 5, 16, 17, 256, 257, 300}
Targets == {1, 2}
Sizes == 1..MaxSize

original_pixels == <<10, 20>>
LossyPixels == <<10, 10>>

Inf == MaxSize + 1
None == "None"
output_path == "compressed_lossless_400.png"

\* ---------------------------------------------------------------- attempts
A(s, k) == [strategy |-> s, arg |-> k]
NoAttempt == A(0, 0)
FilterTypes == <<0, 1, 2, 3, 4>>
BitWidths == <<4, 2, 1>>
Range(s) == {s[i] : i \in DOMAIN s}
\* The attempts in the order the function makes them.
Catalog == <<A(1, 0), A(2, 0)>> \o [i \in DOMAIN FilterTypes |-> A(3, FilterTypes[i])]
               \o [i \in DOMAIN BitWidths |-> A(4, BitWidths[i])]
Attempts == Range(Catalog)

\* Variant: the filter number left out of the name.
TempNameShared(a) ==
    CASE a.strategy = 1 -> "temp_method1.png"
      [] a.strategy = 2 -> "temp_method2.png"
      [] a.strategy = 3 -> "temp_filter_0.png"
      [] OTHER -> "temp_bits_" \o ToString(a.arg) \o ".png"

TempName(a) ==
    CASE a.strategy = 1 -> "temp_method1.png"
      [] a.strategy = 2 -> "temp_method2.png"
      [] a.strategy = 3 -> "temp_filter_" \o ToString(a.arg) \o ".png"
      [] OTHER -> "temp_bits_" \o ToString(a.arg) \o ".png"

Method(a) ==
    CASE a.strategy = 1 -> "PNG compress_level=9"
      [] a.strategy = 2 -> "Palette mode (" \o ToString(unique_colors) \o " colors)"
      [] a.strategy = 3 -> "PNG filter " \o ToString(a.arg)
      [] OTHER -> ToString(a.arg) \o "-bit grayscale"

\* The save call an attempt makes: strategy 1 and every filter of strategy 3 make
\* the same call, img.save(.., 'PNG', optimize=True, compress_level=9).
EncodeCall(a) ==
    CASE a.strategy \in {1, 3} -> "img.save"
      [] a.strategy = 2 -> "palette_img.save"
      [] OTHER -> "img.save bits=" \o ToString(a.arg)

Calls == {EncodeCall(a) : a \in Attempts}
TempNames == {TempName(a) : a \in Attempts}
Names == TempNames \cup {output_path}

\* A byte stream: the call that produced it, its length, the pixel list it decodes
\* to.  Lossless streams come in every size; a lossy stream, which is never
\* ranked, in the smallest one.
Bytes == [call : Calls, size : Sizes, pixels : {original_pixels}]
            \cup [call : Calls, size : {1}, pixels : {LossyPixels}]
Absent == [call |-> "absent", size |-> 0, pixels |-> <<>>]
OldBytes == [call |-> "old", size |-> 1, pixels |-> LossyPixels]
NoBytes == [call |-> "unknown", size |-> 0, pixels |-> <<>>]

\* ---------------------------------------------------------------- file system, codec
\* Variant: the file opened for appending.
WriteAppend(files, name, bytes) ==
    [files EXCEPT ![name] = IF files[name] = Absent THEN bytes
                            ELSE [bytes EXCEPT !.size = files[name].size + bytes.size]]

WriteFile(files, name, bytes) == [files EXCEPT ![name] = bytes]

exists(files, name) == files[name] # Absent
remove(files, name) == [files EXCEPT ![name] = Absent]
getsize(files, name) == files[name].size
getdata(bytes) == bytes.pixels

\* Variant: the lengths compared instead of the pixels.
SameDimensions(bytes) == Len(getdata(bytes)) = Len(original_pixels)

Lossless(bytes) == getdata(bytes) = original_pixels

\* Variants: the comparison not strict, and inverted.
ImprovesOrTies(size, best) == size <= best

Worsens(size, best) == size > best

Improves(size, best) == size < best

\* Variant: the budget test not strict.
UnderBudgetOrEqual(size, target) == size <= target

UnderBudget(size, target) == size < target

\* Variant: 256 colours excluded.
PaletteBelow256(m, u) == u < 256 /\ m \in {"RGB", "RGBA", "L"}

PaletteApplicable(m, u) == u <= 256 /\ m \in {"RGB", "RGBA", "L"}

BitsApplicable(m, u, bits) == m = "L" /\ u <= 2 ^ bits

\* The bytes attempt a's save call yields: any stream, but the one already seen
\* for the same call when there is one.
Encoded(a, b) ==
    /\ b.call = EncodeCall(a)
    /\ png[b.call] \in {NoBytes, b}

Entry(a, size) == [file |-> TempName(a), size |-> size, method |-> Method(a)]

BestMethod ==
    IF best_file = None THEN None
    ELSE LET i == CHOOSE j \in DOMAIN strategies : strategies[j].file = best_file
         IN strategies[i].method

NoResult == [branch |-> "none", path |-> None, size |-> 0, short_by |-> 0]
NoPrev == [valid |-> FALSE, ret |-> NoResult, method |-> None, dest |-> Absent]

\* ---------------------------------------------------------------- one call
\* lines 11-37
Locals ==
    /\ best_size = Inf
    /\ best_file = None
    /\ strategies = <<>>
    /\ idx = 1
    /\ ret = NoResult
    /\ attempted = {}
    /\ wrote = [n \in Names |-> {}]
    /\ lastWriter = [n \in Names |-> NoAttempt]
    /\ measured = [a \in Attempts |-> NoAttempt]

InitBase ==
    /\ mode \in Modes
    /\ unique_colors \in UniqueCounts
    /\ mode \in {"L", "P"} => unique_colors <= 256
    /\ target_bytes \in Targets
    /\ faults = [a \in Attempts |-> "unknown"]
    /\ png = [c \in Calls |-> NoBytes]
    /\ dest0 \in {Absent, OldBytes}
    /\ fs = [n \in Names |-> IF n = output_path THEN dest0 ELSE Absent]
    /\ run = 1
    /\ prev = NoPrev
    /\ Locals

Init ==
    /\ InitBase
    /\ pc = "s1"
    /\ stage = [a \in Attempts |-> "seq"]

Inputs == <<mode, unique_colors, target_bytes, run, prev, dest0, stage>>

\* Attempt a meets fault f ("none", "save": its save raises, "open": the open of
\* its file raises): the fault it met before if any, and no more than MaxFaults
\* faults in all.
Fault(a, f) ==
    /\ faults[a] \in {"unknown", f}
    /\ \/ f = "none"
       \/ faults[a] = f
       \/ Cardinality({x \in Attempts : faults[x] \in {"save", "open"}}) < MaxFaults
    /\ faults' = [faults EXCEPT ![a] = f]

\* History of a save by attempt a.
Saved(a) ==
    /\ attempted' = attempted \cup {a}
    /\ wrote' = [wrote EXCEPT ![TempName(a)] = @ \cup {a}]
    /\ lastWriter' = [lastWriter EXCEPT ![TempName(a)] = a]

\* The save of attempt a raised: nothing written, nothing ranked.
SaveRaises(a) ==
    /\ Fault(a, "save")
    /\ attempted' = attempted \cup {a}
    /\ UNCHANGED <<png, fs, strategies, best_size, best_file, wrote, lastWriter, measured>>

\* The save of attempt a wrote bytes b; the open of the file raised.
OpenRaises(a) ==
    /\ Fault(a, "open")
    /\ \E b \in Bytes :
          /\ Encoded(a, b)
          /\ png' = [png EXCEPT ![b.call] = b]
          /\ fs' = WriteFile(fs, TempName(a), b)
    /\ Saved(a)
    /\ UNCHANGED <<strategies, best_size, best_file, measured>>

\* getsize, open, compare, rank, on the files as they are when attempt a reads its
\* file; removeOnFail: the else branch removes the file (strategies 1 and 2).
Verify(a, files, removeOnFail) ==
    LET size == getsize(files, TempName(a))
    IN IF Lossless(files[TempName(a)])
       THEN /\ strategies' = Append(strategies, Entry(a, size))
            /\ IF Improves(size, best_size)
               THEN best_size' = size /\ best_file' = TempName(a)
               ELSE UNCHANGED <<best_size, best_file>>
            /\ fs' = files
       ELSE /\ UNCHANGED <<strategies, best_size, best_file>>
            /\ fs' = IF removeOnFail /\ exists(files, TempName(a))
                     THEN remove(files, TempName(a)) ELSE files

RemoveOnFail(a) == a.strategy \in {1, 2}

\* save, then getsize, open, compare, rank.
SaveAndVerify(a) ==
    /\ Fault(a, "none")
    /\ \E b \in Bytes :
          /\ Encoded(a, b)
          /\ png' = [png EXCEPT ![b.call] = b]
          /\ Verify(a, WriteFile(fs, TempName(a), b), RemoveOnFail(a))
    /\ Saved(a)
    /\ measured' = [measured EXCEPT ![a] = a]

\* lines 39-56: no try, so a raise leaves the function.
Strategy1 ==
    /\ pc = "s1"
    /\ \/ SaveAndVerify(A(1, 0)) /\ pc' = "s2"
       \/ (SaveRaises(A(1, 0)) \/ OpenRaises(A(1, 0))) /\ pc' = "raised"
    /\ UNCHANGED <<idx, ret, Inputs>>

\* lines 58-84
Strategy2 ==
    /\ pc = "s2"
    /\ PaletteApplicable(mode, unique_colors)
    /\ \/ SaveAndVerify(A(2, 0)) /\ pc' = "s3"
       \/ (SaveRaises(A(2, 0)) \/ OpenRaises(A(2, 0))) /\ pc' = "raised"
    /\ UNCHANGED <<idx, ret, Inputs>>

Strategy2Skip ==
    /\ pc = "s2"
    /\ ~PaletteApplicable(mode, unique_colors)
    /\ pc' = "s3"
    /\ UNCHANGED <<faults, png, fs, strategies, best_size, best_file, idx, ret,
                   attempted, wrote, lastWriter, measured, Inputs>>

\* lines 86-102: one iteration of the loop; the bare except swallows a raise.
Strategy3 ==
    /\ pc = "s3"
    /\ LET a == A(3, FilterTypes[idx])
       IN \/ SaveAndVerify(a)
          \/ SaveRaises(a)
          \/ OpenRaises(a)
    /\ IF idx < Len(FilterTypes)
       THEN idx' = idx + 1 /\ pc' = "s3"
       ELSE idx' = 1 /\ pc' = "s4"
    /\ UNCHANGED <<ret, Inputs>>

\* lines 104-123: one iteration of the loop, for a grayscale image.
Strategy4Next ==
    IF idx < Len(BitWidths)
    THEN idx' = idx + 1 /\ pc' = "s4"
    ELSE idx' = 1 /\ pc' = "results"

Strategy4 ==
    /\ pc = "s4"
    /\ mode = "L"
    /\ BitsApplicable(mode, unique_colors, BitWidths[idx])
    /\ LET a == A(4, BitWidths[idx])
       IN \/ SaveAndVerify(a) /\ Strategy4Next
          \/ (SaveRaises(a) \/ OpenRaises(a)) /\ pc' = "raised" /\ idx' = idx
    /\ UNCHANGED <<ret, Inputs>>

Strategy4Skip ==
    /\ pc = "s4"
    /\ \/ mode # "L" /\ pc' = "results" /\ idx' = 1
       \/ mode = "L" /\ ~BitsApplicable(mode, unique_colors, BitWidths[idx]) /\ Strategy4Next
    /\ UNCHANGED <<faults, png, fs, strategies, best_size, best_file, ret,
                   attempted, wrote, lastWriter, measured, Inputs>>

\* lines 152-157 and 178-183
CleanUp(files, keep) ==
    [n \in DOMAIN files |->
        IF (\E i \in DOMAIN strategies : strategies[i].file = n) /\ n # keep
        THEN Absent ELSE files[n]]

\* lines 137-159
Success ==
    /\ pc = "results"
    /\ UnderBudget(best_size, target_bytes)
    /\ fs' = CleanUp(WriteFile(fs, output_path, fs[best_file]), best_file)
    /\ ret' = [branch |-> "SUCCESS", path |-> output_path, size |-> best_size,
               short_by |-> 0]
    /\ pc' = "done"
    /\ UNCHANGED <<faults, png, strategies, best_size, best_file, idx, attempted,
                   wrote, lastWriter, measured, Inputs>>

\* lines 160-185
CannotAchieveTarget ==
    /\ pc = "results"
    /\ ~UnderBudget(best_size, target_bytes)
    /\ fs' = CleanUp(fs, None)
    /\ ret' = [branch |-> "CANNOT ACHIEVE TARGET", path |-> None, size |-> best_size,
               short_by |-> best_size - target_bytes]
    /\ pc' = "done"
    /\ UNCHANGED <<faults, png, strategies, best_size, best_file, idx, attempted,
                   wrote, lastWriter, measured, Inputs>>

\* The same call made again, on the files the previous call left.
Rerun ==
    /\ pc = "done"
    /\ run = 1
    /\ run' = run + 1
    /\ prev' = [valid |-> TRUE, ret |-> ret, method |-> BestMethod,
                dest |-> fs[output_path]]
    /\ dest0' = fs[output_path]
    /\ best_size' = Inf
    /\ best_file' = None
    /\ strategies' = <<>>
    /\ pc' = "s1"
    /\ idx' = 1
    /\ ret' = NoResult
    /\ attempted' = {}
    /\ wrote' = [n \in Names |-> {}]
    /\ lastWriter' = [n \in Names |-> NoAttempt]
    /\ measured' = [a \in Attempts |-> NoAttempt]
    /\ UNCHANGED <<mode, unique_colors, target_bytes, faults, png, fs, stage>>

Next ==
    \/ Strategy1
    \/ Strategy2
    \/ Strategy2Skip
    \/ Strategy3
    \/ Strategy4
    \/ Strategy4Skip
    \/ Success
    \/ CannotAchieveTarget

Spec == Init /\ [][Next]_vars

\* Two calls in succession, the first in a directory without output_path.
InitTwice == Init /\ dest0 = Absent

NextTwice ==
    \/ Strategy1
    \/ Strategy2
    \/ Strategy2Skip
    \/ Strategy3
    \/ Strategy4
    \/ Strategy4Skip
    \/ Success
    \/ CannotAchieveTarget
    \/ Rerun

SpecTwice == InitTwice /\ [][NextTwice]_vars

\* ---------------------------------------------------------------- attempts interleaved
\* The attempts of one call with their steps in any order: each applicable attempt
\* saves its candidate, then measures, verifies and ranks the file of its name.
Applicable(a) ==
    CASE a.strategy = 2 -> PaletteApplicable(mode, unique_colors)
      [] a.strategy = 4 -> BitsApplicable(mode, unique_colors, a.arg)
      [] OTHER -> TRUE

InitConc ==
    /\ InitBase
    /\ mode \in {"RGB", "P"}
    /\ unique_colors \in {256, 257}
    /\ dest0 = Absent
    /\ pc = "attempts"
    /\ stage = [a \in Attempts |-> IF Applicable(a) THEN "todo" ELSE "skip"]

ConcSave(a) ==
    /\ stage[a] = "todo"
    /\ \E b \in Bytes :
          /\ Encoded(a, b)
          /\ png' = [png EXCEPT ![b.call] = b]
          /\ fs' = WriteFile(fs, TempName(a), b)
    /\ Saved(a)
    /\ stage' = [stage EXCEPT ![a] = "saved"]
    /\ UNCHANGED <<mode, unique_colors, target_bytes, faults, strategies, best_size,
                   best_file, pc, idx, ret, run, prev, dest0, measured>>

ConcVerify(a) ==
    /\ stage[a] = "saved"
    /\ Verify(a, fs, RemoveOnFail(a))
    /\ measured' = [measured EXCEPT ![a] = lastWriter[TempName(a)]]
    /\ stage' = [stage EXCEPT ![a] = "done"]
    /\ UNCHANGED <<mode, unique_colors, target_bytes, faults, png, pc, idx, ret, run,
                   prev, dest0, attempted, wrote, lastWriter>>

NextConc ==
    \/ \E a \in Attempts : ConcSave(a)
    \/ \E a \in Attempts : ConcVerify(a)

SpecConc == InitConc /\ [][NextConc]_vars

TypeOK ==
    /\ pc \in {"s1", "s2", "s3", "s4", "results", "done", "raised", "attempts"}
    /\ best_size \in Sizes \cup {Inf}
    /\ best_file \in TempNames \cup {None}

\* ---------------------------------------------------------------- properties
Ranked == {strategies[i].file : i \in DOMAIN strategies}
CatalogIndex(file) == CHOOSE i \in DOMAIN Catalog : TempName(Catalog[i]) = file
Rejected(a) == measured[a] = a /\ TempName(a) \notin Ranked

\* The outcome of the specification that a return of the function stands for.
Outcome ==
    CASE ret.branch = "SUCCESS" -> "Success"
      [] ret.branch = "CANNOT ACHIEVE TARGET" -> "BudgetMissed"
      [] OTHER -> "none"

\* C1: a candidate is ranked only if its file decodes to the original pixel list:
\* until the clean-up every ranked file, the winner's among them, exists with the
\* recorded size and decodes to original_pixels, and after a successful return so do
\* the winner's file and the copy at output_path.
C1_RankedOnlyIfLossless ==
    /\ pc # "done" =>
          \A i \in DOMAIN strategies :
              /\ exists(fs, strategies[i].file)
              /\ getdata(fs[strategies[i].file]) = original_pixels
              /\ getsize(fs, strategies[i].file) = strategies[i].size
    /\ best_file # None => best_file \in Ranked
    /\ (pc = "done" /\ ret.branch = "SUCCESS") =>
          /\ getdata(fs[best_file]) = original_pixels
          /\ getdata(fs[output_path]) = original_pixels

\* C1 witness: one candidate was ranked and another, read back lossy, was not.
C1_Witness ==
    /\ strategies # <<>>
    /\ \E a \in Attempts : Rejected(a)

\* C2: once every strategy has been attempted, best_size is the size of the ranked
\* candidate best_file and no ranked candidate is smaller.
C2_WinnerIsMinimal ==
    pc \in {"results", "done"} =>
        /\ \A i \in DOMAIN strategies : best_size <= strategies[i].size
        /\ strategies # <<>> =>
              \E i \in DOMAIN strategies :
                  strategies[i].file = best_file /\ strategies[i].size = best_size

\* C2 witness: a later candidate was smaller than an earlier one and won.
C2_Witness ==
    /\ pc = "done"
    /\ \E i, j \in DOMAIN strategies :
          /\ i < j
          /\ strategies[j].size < strategies[i].size
          /\ strategies[j].file = best_file

\* C3: among the ranked candidates of the winning size the winner is the one
\* earliest in the catalog, at every point of the run: a candidate that only ties
\* the running best never replaces it.
C3_EarliestWinsTies ==
    \A i \in DOMAIN strategies :
        strategies[i].size = best_size =>
            CatalogIndex(best_file) <= CatalogIndex(strategies[i].file)

\* C3 witness: the palette candidate ties the direct one, which stays the winner.
C3_Witness ==
    /\ pc = "done"
    /\ best_file = TempName(A(1, 0))
    /\ \E i \in DOMAIN strategies :
          strategies[i].file = TempName(A(2, 0)) /\ strategies[i].size = best_size

\* C4: a run in which no candidate was verified ends with the outcome
\* NoLosslessCandidate, distinct from Success and BudgetMissed, and leaves
\* output_path alone; and there is no winner only when no candidate was verified.
C4_NoLosslessCandidateOutcome ==
    /\ best_file = None => strategies = <<>>
    /\ (pc = "done" /\ best_file = None) =>
          /\ Outcome \notin {"Success", "BudgetMissed"}
          /\ fs[output_path] = dest0

\* C5: a call that returns with a winner has written output_path exactly when
\* best_size < target_bytes, as a copy of the winner's file; otherwise it reports
\* best_size and best_size - target_bytes and leaves output_path as it was; and
\* output_path is not touched before the return.
C5_WrittenIffUnderBudget ==
    /\ pc # "done" => fs[output_path] = dest0
    /\ (pc = "done" /\ best_file # None) =>
          IF best_size < target_bytes
          THEN /\ Outcome = "Success"
               /\ ret.size = best_size
               /\ fs[output_path] = fs[best_file]
               /\ fs[output_path] \in Bytes
               /\ fs[output_path] = png[fs[output_path].call]
          ELSE /\ Outcome = "BudgetMissed"
               /\ ret.size = best_size
               /\ ret.short_by = best_size - target_bytes
               /\ fs[output_path] = dest0

\* C5 witness: the winner is exactly as large as the budget, and a file that was
\* at output_path before the call is still there.
C5_Witness ==
    /\ pc = "done"
    /\ best_file # None
    /\ best_size = target_bytes
    /\ dest0 = OldBytes
    /\ fs[output_path] = OldBytes

\* C6: a save or an open that raises inside an attempt never ends the run: the
\* function is never left by an exception.
C6_FailuresCaughtLocally == pc # "raised"

\* C7: when the function returns, no candidate file of the run is left, except the
\* winner's on success.
C7_NoCandidateFileLeft ==
    pc = "done" =>
        \A n \in TempNames :
            exists(fs, n) => (ret.branch = "SUCCESS" /\ n = best_file)

\* C8: the attempts made are the catalog filtered by applicability: never an
\* inapplicable one, and all the applicable ones once the strategies are through.
C8_Catalog ==
    {a \in Attempts :
        \/ a.strategy \in {1, 3}
        \/ a.strategy = 2 /\ unique_colors <= 256 /\ mode \in {"L", "RGB", "RGBA"}
        \/ a.strategy = 4 /\ mode = "L" /\ unique_colors <= 2 ^ a.arg}

C8_AttemptedIsApplicable ==
    /\ attempted \subseteq C8_Catalog
    /\ pc \in {"results", "done"} => attempted = C8_Catalog

\* C8 witness: a grayscale image of 4 levels: palette and widths 4 and 2 tried,
\* width 1 not.
C8_Witness ==
    /\ pc = "done"
    /\ mode = "L" /\ unique_colors = 4
    /\ A(2, 0) \in attempted /\ A(4, 4) \in attempted /\ A(4, 2) \in attempted
    /\ A(4, 1) \notin attempted

\* C9: the second of two calls in succession returns what the first returned,
\* with the same winning method, and leaves the same bytes at output_path.
C9_Idempotent ==
    (pc = "done" /\ prev.valid) =>
        /\ ret = prev.ret
        /\ BestMethod = prev.method
        /\ fs[output_path] = prev.dest

\* C9 witness: the second call succeeded over the files the first one left.
C9_Witness ==
    /\ pc = "done"
    /\ run = 2
    /\ ret.branch = "SUCCESS"
    /\ dest0 # Absent

====
